---- MODULE Spec2Model ----
(***************************************************************************)
(* Model of src/main.py: the FIT-to-CSV derivation functions and the three *)
(* Flask endpoints that wrap them.                                         *)
(*                                                                         *)
(* Python values are tagged records:                                       *)
(*   Missing   the key is not in the mapping (dict.get falls to a default) *)
(*   PyNone    the key is present with the value None                      *)
(*   Num(n)    a number, held as an integer in the field's FIT unit:       *)
(*             speeds in mm/s, durations in ms, avg_fractional_cadence in  *)
(*             1/128, timestamps in s, hr_drift in 1/100 percent           *)
(*   Str(s)    a string of the source, Text(c) a formatted string held as  *)
(*             the sequence of its pieces, Time(t) a datetime              *)
(* Arithmetic on floats is modelled exactly (as rationals); binary         *)
(* floating-point error is outside the model.                              *)
(***************************************************************************)
EXTENDS Integers, Sequences, FiniteSets, TLC

VARIABLES request, response, args, result

vars == <<request, response, args, result>>

----------------------------------------------------------------------------
(* Python values *)

Missing == [k |-> "missing"]

PyNone == [k |-> "none"]

Num(n) == [k |-> "num", n |-> n]

Str(s) == [k |-> "str", s |-> s]

Text(c) == [k |-> "text", c |-> c]

Time(t) == [k |-> "time", t |-> t]

Empty == Str("")

\* bool(v): None, 0 and '' are false, every other value is true
Truthy(v) ==
    /\ v.k # "none"
    /\ v.k # "missing"
    /\ (v.k = "num" => v.n # 0)
    /\ (v.k = "str" => v.s # "")
    /\ (v.k = "text" => Len(v.c) > 0)

\* a or b
PyOr(a, b) == IF Truthy(a) THEN a ELSE b

\* mapping.get(key): None when the key is missing
Get(m, f) == IF m[f] = Missing THEN PyNone ELSE m[f]

\* mapping.get(key, default): the default only when the key is missing
GetDefault(m, f, d) == IF m[f] = Missing THEN d ELSE m[f]

\* key in mapping
Has(m, f) == m[f] # Missing

----------------------------------------------------------------------------
(* Number formatting and rounding *)

DigitChars == <<"0", "1", "2", "3", "4", "5", "6", "7", "8", "9">>

RECURSIVE Digits(_)
\* str(n) for n >= 0, one character per element
Digits(n) ==
    IF n < 10 THEN <<DigitChars[n + 1]>>
    ELSE Digits(n \div 10) \o <<DigitChars[(n % 10) + 1]>>

\* f"{n:02d}" for n >= 0
Pad2(n) == IF n < 10 THEN <<"0">> \o Digits(n) ELSE Digits(n)

\* str(v) inside an f-string
PyStr(v) ==
    CASE v.k = "none" -> <<"None">>
      [] v.k = "num" -> IF v.n < 0 THEN <<"-">> \o Digits(-v.n) ELSE Digits(v.n)
      [] v.k = "str" -> <<v.s>>
      [] OTHER -> v.c

\* round(num/den) for den > 0: Python 3 rounds a tie to the even neighbour
RoundHalfEven(num, den) ==
    LET q == num \div den
        r == num % den
    IN  IF 2 * r < den THEN q
        ELSE IF 2 * r > den THEN q + 1
        ELSE IF q % 2 = 0 THEN q ELSE q + 1

RECURSIVE SumSeq(_)
SumSeq(s) == IF s = <<>> THEN 0 ELSE Head(s) + SumSeq(Tail(s))

----------------------------------------------------------------------------
(* FIT parsing functions *)

\* calculate_hr_drift(records, start_time, duration_seconds); start in s,
\* duration in ms.  Comparing a None timestamp with a datetime is a
\* TypeError, which ends the call.  The result is [raised, value] with
\* value PyNone or Num(drift in 1/100 percent).
RECURSIVE HrFilter(_, _, _)
HrFilter(records, start_time, end_ms) ==
    IF records = <<>> THEN [raised |-> FALSE, hrs |-> <<>>]
    ELSE
        LET record == Head(records)
            rest == HrFilter(Tail(records), start_time, end_ms)
        IN  IF Has(record, "timestamp") /\ Has(record, "heart_rate")
            THEN IF record["timestamp"] = PyNone
                 THEN [raised |-> TRUE, hrs |-> <<>>]
                 ELSE IF rest.raised THEN rest
                 ELSE IF /\ record["timestamp"].t >= start_time
                         /\ record["timestamp"].t * 1000 < end_ms
                         /\ record["heart_rate"] # PyNone
                      THEN [raised |-> FALSE,
                            hrs |-> <<record["heart_rate"].n>> \o rest.hrs]
                      ELSE rest
            ELSE rest

calculate_hr_drift(records, start_time, duration_ms) ==
    IF duration_ms < 300000 THEN [raised |-> FALSE, value |-> PyNone]
    ELSE
        LET f == HrFilter(records, start_time, start_time * 1000 + duration_ms)
            n == Len(f.hrs)
            mid_point == n \div 2
            first_half == SubSeq(f.hrs, 1, mid_point)
            second_half == SubSeq(f.hrs, mid_point + 1, n)
            s1 == SumSeq(first_half)
            s2 == SumSeq(second_half)
            n1 == Len(first_half)
            n2 == Len(second_half)
        IN  IF f.raised THEN [raised |-> TRUE, value |-> PyNone]
            ELSE IF n < 10 THEN [raised |-> FALSE, value |-> PyNone]
            ELSE IF n1 = 0 \/ n2 = 0 THEN [raised |-> FALSE, value |-> PyNone]
            ELSE IF s1 = 0 THEN [raised |-> FALSE, value |-> PyNone]
            ELSE [raised |-> FALSE,
                  value |-> Num(RoundHalfEven((s2 * n1 - s1 * n2) * 10000,
                                              s1 * n2))]

\* seconds_to_pace(seconds_per_meter), the argument num/den seconds per metre
seconds_to_pace(num, den) ==
    IF num = 0 THEN PyNone
    ELSE
        LET minutes == (num * 1000) \div (den * 60)
            seconds == ((num * 1000) \div den) % 60
        IN  Text(Digits(minutes) \o <<":">> \o Pad2(seconds))

LapFields ==
    {"start_time", "total_elapsed_time", "total_distance", "avg_heart_rate",
     "max_heart_rate", "enhanced_avg_speed", "avg_speed",
     "avg_running_cadence", "avg_cadence", "avg_fractional_cadence",
     "avg_power", "intensity"}

\* lap.get('enhanced_avg_speed') or lap.get('avg_speed'), in mm/s
LapSpeed(lap) == PyOr(Get(lap, "enhanced_avg_speed"), Get(lap, "avg_speed"))

\* avg_pace of one lap: 1.0 / avg_speed seconds per metre is 1000 / (mm/s)
LapPace(lap) ==
    LET avg_speed == LapSpeed(lap)
    IN  IF Truthy(avg_speed) /\ avg_speed.n > 0
        THEN seconds_to_pace(1000, avg_speed.n)
        ELSE PyNone

\* lap.get('avg_running_cadence') or lap.get('avg_cadence')
LapCadenceBase(lap) ==
    PyOr(Get(lap, "avg_running_cadence"), Get(lap, "avg_cadence"))

\* avg_cadence of one lap: [raised, value]; adding None to a number is a
\* TypeError.  (c + f/128) * 2 = (128 c + f) / 64.
LapCadence(lap) ==
    LET avg_cadence == LapCadenceBase(lap)
        avg_fractional == GetDefault(lap, "avg_fractional_cadence", Num(0))
    IN  IF Truthy(avg_cadence)
        THEN IF avg_fractional = PyNone
             THEN [raised |-> TRUE, value |-> PyNone]
             ELSE [raised |-> FALSE,
                   value |-> Num(RoundHalfEven(128 * avg_cadence.n
                                               + avg_fractional.n, 64))]
        ELSE [raised |-> FALSE, value |-> avg_cadence]

\* hr_drift of one lap: [raised, value]
LapDrift(lap, record_data) ==
    LET start_time == Get(lap, "start_time")
        duration == Get(lap, "total_elapsed_time")
    IN  IF Truthy(start_time) /\ Truthy(duration)
        THEN calculate_hr_drift(record_data, start_time.t, duration.n)
        ELSE [raised |-> FALSE, value |-> PyNone]

\* x.strftime('%Y-%m-%d %H:%M:%S')
Strftime(v) == Text(<<"strftime", v.t>>)

\* The body of the loop of create_lap_data_csv_content for one lap:
\* [raised, row].  The cadence is computed before the drift, so its
\* TypeError comes first.
LapRow(idx, lap, record_data) ==
    LET start_time == Get(lap, "start_time")
        cadence == LapCadence(lap)
        drift == LapDrift(lap, record_data)
        intensity == Get(lap, "intensity")
    IN  IF cadence.raised \/ drift.raised THEN [raised |-> TRUE, row |-> <<>>]
        ELSE [raised |-> FALSE,
              row |-> [lap_number |-> Num(idx),
                       lap_name |-> IF Truthy(intensity)
                                    THEN Text(PyStr(intensity)) ELSE Empty,
                       start_time |-> IF Truthy(start_time)
                                      THEN Strftime(start_time) ELSE Empty,
                       duration_seconds |->
                           PyOr(Get(lap, "total_elapsed_time"), Empty),
                       distance_meters |->
                           PyOr(Get(lap, "total_distance"), Empty),
                       avg_heart_rate |->
                           PyOr(Get(lap, "avg_heart_rate"), Empty),
                       max_heart_rate |->
                           PyOr(Get(lap, "max_heart_rate"), Empty),
                       avg_pace |-> PyOr(LapPace(lap), Empty),
                       avg_cadence |-> PyOr(cadence.value, Empty),
                       avg_power |-> PyOr(Get(lap, "avg_power"), Empty),
                       hr_drift |-> IF drift.value # PyNone
                                    THEN drift.value ELSE Empty]]

LapHeader ==
    <<"lap_number", "lap_name", "start_time", "duration_seconds",
      "distance_meters", "avg_heart_rate", "max_heart_rate", "avg_pace",
      "avg_cadence", "avg_power", "hr_drift">>

\* create_lap_data_csv_content(lap_data, record_data): the rows written so
\* far and whether a row's derivation raised.  `done` is the number of
\* laps already written.
RECURSIVE LapRowsFrom(_, _, _)
LapRowsFrom(done, lap_data, record_data) ==
    IF done = Len(lap_data) THEN [raised |-> FALSE, rows |-> <<>>]
    ELSE
        LET r == LapRow(done + 1, lap_data[done + 1], record_data)
            rest == LapRowsFrom(done + 1, lap_data, record_data)
        IN  IF r.raised THEN [raised |-> TRUE, rows |-> <<>>]
            ELSE [raised |-> rest.raised, rows |-> <<r.row>> \o rest.rows]

create_lap_data_csv_content(lap_data, record_data) ==
    LET out == LapRowsFrom(0, lap_data, record_data)
    IN  [raised |-> out.raised,
         csv |-> [header |-> LapHeader, rows |-> out.rows]]

----------------------------------------------------------------------------
(* Structure parsing *)

\* convert_hr(encoded_value)
convert_hr(encoded_value) ==
    IF encoded_value = PyNone THEN PyNone ELSE Num(encoded_value.n - 100)

\* speed_to_pace_seconds(speed_ms), the speed in mm/s: round(1000 / (m/s))
speed_to_pace_seconds(speed_ms) ==
    IF speed_ms = PyNone \/ speed_ms.n = 0 THEN PyNone
    ELSE Num(RoundHalfEven(1000000, speed_ms.n))

\* pace_seconds_to_string(seconds_per_km)
pace_seconds_to_string(seconds_per_km) ==
    IF seconds_per_km = PyNone THEN PyNone
    ELSE
        LET minutes == seconds_per_km.n \div 60
            seconds == seconds_per_km.n % 60
        IN  Text(Digits(minutes) \o <<":">> \o Pad2(seconds))

\* get_zone_name with the lower bound compared by <= instead of <
get_zone_name_inclusive(hr_low, hr_high) ==
    IF hr_low = PyNone \/ hr_high = PyNone THEN ""
    ELSE IF hr_high.n <= 130 THEN "Zone 1: Recovery"
    ELSE IF hr_high.n <= 145
         THEN IF hr_low.n <= 130 THEN "Zone 1: Recovery - Zone 2: Aerobic"
              ELSE "Zone 2: Aerobic"
    ELSE IF hr_high.n <= 160
         THEN IF hr_low.n <= 145 THEN "Zone 2: Aerobic - Zone 3: Tempo"
              ELSE "Zone 3: Tempo"
    ELSE IF hr_high.n <= 175 THEN "Zone 4: Threshold"
    ELSE "Zone 5: VO2 Max"

\* get_zone_name(hr_low, hr_high)
get_zone_name(hr_low, hr_high) ==
    IF hr_low = PyNone \/ hr_high = PyNone THEN ""
    ELSE IF hr_high.n <= 130 THEN "Zone 1: Recovery"
    ELSE IF hr_high.n <= 145
         THEN IF hr_low.n < 130 THEN "Zone 1: Recovery - Zone 2: Aerobic"
              ELSE "Zone 2: Aerobic"
    ELSE IF hr_high.n <= 160
         THEN IF hr_low.n < 145 THEN "Zone 2: Aerobic - Zone 3: Tempo"
              ELSE "Zone 3: Tempo"
    ELSE IF hr_high.n <= 175 THEN "Zone 4: Threshold"
    ELSE "Zone 5: VO2 Max"

StepFields ==
    {"wkt_step_name", "duration_type", "duration_time", "intensity",
     "custom_target_heart_rate_low", "custom_target_heart_rate_high",
     "custom_target_speed_low", "custom_target_speed_high",
     "repeat_steps", "duration_step"}

\* pace_seconds_to_string(pace_sec) if pace_sec else ''
StepPace(speed_ms) ==
    LET pace_sec == speed_to_pace_seconds(speed_ms)
    IN  IF Truthy(pace_sec) THEN pace_seconds_to_string(pace_sec) ELSE Empty

\* step_type with the intensity tested before the repeat duration type
StepTypeIntensityFirst(duration_type, intensity) ==
    IF intensity = Str("warmup") THEN Str("warmup")
    ELSE IF intensity = Str("cooldown") THEN Str("cooldown")
    ELSE IF intensity = Str("rest") THEN Str("rest")
    ELSE IF intensity = Str("active") THEN Str("active")
    ELSE IF intensity = Str("recovery") THEN Str("recovery")
    ELSE IF duration_type = Str("repeat_until_steps_cmplt") THEN Str("repeat")
    ELSE PyOr(intensity, Empty)

\* step_type of one step
StepType(duration_type, intensity) ==
    IF duration_type = Str("repeat_until_steps_cmplt") THEN Str("repeat")
    ELSE IF intensity = Str("warmup") THEN Str("warmup")
    ELSE IF intensity = Str("cooldown") THEN Str("cooldown")
    ELSE IF intensity = Str("rest") THEN Str("rest")
    ELSE IF intensity = Str("active") THEN Str("active")
    ELSE IF intensity = Str("recovery") THEN Str("recovery")
    ELSE PyOr(intensity, Empty)

\* duration_seconds of one step before it is written: int(duration_time)
\* truncates the ms value to whole seconds
StepDuration(duration_type, duration_time) ==
    IF duration_type = Str("time") /\ Truthy(duration_time)
    THEN Num(duration_time.n \div 1000)
    ELSE PyNone

\* notes of one step
StepNotes(step, duration_type, duration_time) ==
    IF duration_type = Str("time") /\ Truthy(duration_time) THEN Empty
    ELSE IF duration_type = Str("open")
         THEN Text(<<"Open duration (until lap button pressed)">>)
    ELSE IF duration_type = Str("repeat_until_steps_cmplt")
         THEN Text(<<"Repeat previous ">>
                   \o PyStr(GetDefault(step, "repeat_steps", Num(0)))
                   \o <<" step(s) until step ">>
                   \o PyStr(GetDefault(step, "duration_step", Num(0)))
                   \o <<" completes">>)
    ELSE Empty

\* csv.DictWriter.writerow: a None cell is written as the empty string
CsvCell(v) == IF v = PyNone THEN Empty ELSE v

\* The body of the loop of create_structure_csv_content for one step
StepRow(idx, step) ==
    LET duration_type == GetDefault(step, "duration_type", Empty)
        duration_time == Get(step, "duration_time")
        intensity == GetDefault(step, "intensity", Empty)
        hr_low == convert_hr(Get(step, "custom_target_heart_rate_low"))
        hr_high == convert_hr(Get(step, "custom_target_heart_rate_high"))
        duration_seconds == StepDuration(duration_type, duration_time)
    IN  [step_number |-> Num(idx),
         step_name |-> CsvCell(GetDefault(step, "wkt_step_name", Empty)),
         duration_seconds |-> IF Truthy(duration_seconds)
                              THEN duration_seconds ELSE Empty,
         target_zone_low |-> IF hr_low # PyNone THEN hr_low ELSE Empty,
         target_zone_high |-> IF hr_high # PyNone THEN hr_high ELSE Empty,
         target_zone_name |-> Str(get_zone_name(hr_low, hr_high)),
         target_pace_low |-> StepPace(Get(step, "custom_target_speed_high")),
         target_pace_high |-> StepPace(Get(step, "custom_target_speed_low")),
         step_type |-> CsvCell(StepType(duration_type, intensity)),
         notes |-> StepNotes(step, duration_type, duration_time)]

StructureHeader ==
    <<"step_number", "step_name", "duration_seconds", "target_zone_low",
      "target_zone_high", "target_zone_name", "target_pace_low",
      "target_pace_high", "step_type", "notes">>

\* create_structure_csv_content(workout_steps): no derivation of a step
\* can raise
create_structure_csv_content(workout_steps) ==
    [raised |-> FALSE,
     csv |-> [header |-> StructureHeader,
              rows |-> [i \in 1..Len(workout_steps) |->
                           StepRow(i, workout_steps[i])]]]

----------------------------------------------------------------------------
(* Flask endpoints.  A request is the uploaded file as the decoders see it: *)
(* whether the form holds a file, what its bytes are, and the messages the  *)
(* FIT decoder yields from them.                                            *)

NoResponse == [pending |-> TRUE]

\* jsonify({'success': False, 'error': str(e)}), status
Failure(error, status) ==
    [success |-> FALSE, error |-> error, status |-> status]

\* The bytes handed to FitFile by parse_lap_data: gzip.decompress only when
\* the file name ends in .gz, and it raises on bytes that are not gzip
LapFitBytes(req) ==
    IF req.name_gz
    THEN CASE req.content = "gz_fit" -> "fit"
           [] req.content = "gz_corrupt" -> "corrupt"
           [] OTHER -> "raise"
    ELSE req.content

\* parse_lap_data returning what was written when a row's derivation
\* raises, instead of the failure
parse_lap_data_partial(req) ==
    IF ~req.has_file THEN Failure("KeyError: file", 500)
    ELSE IF LapFitBytes(req) = "raise" THEN Failure("BadGzipFile", 500)
    ELSE IF LapFitBytes(req) # "fit" THEN Failure("FitParseError", 500)
    ELSE
        LET out == create_lap_data_csv_content(req.lap_data, req.record_data)
        IN  [success |-> TRUE, csv |-> out.csv,
             lap_count |-> Len(req.lap_data), status |-> 200]

\* parse_lap_data()
parse_lap_data(req) ==
    IF ~req.has_file THEN Failure("KeyError: file", 500)
    ELSE IF LapFitBytes(req) = "raise" THEN Failure("BadGzipFile", 500)
    ELSE IF LapFitBytes(req) # "fit" THEN Failure("FitParseError", 500)
    ELSE
        LET out == create_lap_data_csv_content(req.lap_data, req.record_data)
        IN  IF out.raised THEN Failure("TypeError", 500)
            ELSE [success |-> TRUE, csv |-> out.csv,
                  lap_count |-> Len(req.lap_data), status |-> 200]

\* parse_structure(): the bytes go to FitFile as they are
parse_structure(req) ==
    IF ~req.has_file THEN Failure("KeyError: file", 500)
    ELSE IF req.content # "fit" THEN Failure("FitParseError", 500)
    ELSE
        LET out == create_structure_csv_content(req.workout_steps)
        IN  IF out.raised THEN Failure("TypeError", 500)
            ELSE [success |-> TRUE, csv |-> out.csv,
                  step_count |-> Len(req.workout_steps), status |-> 200]

\* name.endswith(suffix), names as sequences of characters
EndsWith(name, suffix) ==
    /\ Len(name) >= Len(suffix)
    /\ SubSeq(name, Len(name) - Len(suffix) + 1, Len(name)) = suffix

DotCsv == <<".", "c", "s", "v">>

\* [name for name in zip_ref.namelist() if name.endswith('.csv')]
CsvFiles(entries) ==
    LET F[i \in 0..Len(entries)] ==
            IF i = 0 THEN <<>>
            ELSE IF EndsWith(entries[i].name, DotCsv)
                 THEN F[i - 1] \o <<entries[i].name>>
                 ELSE F[i - 1]
    IN  F[Len(entries)]

\* zip_ref.read(name): the archive's last entry of that name
ZipRead(entries, name) ==
    LET last == CHOOSE i \in 1..Len(entries) :
                    /\ entries[i].name = name
                    /\ \A j \in (i + 1)..Len(entries) : entries[j].name # name
    IN  entries[last]

\* unzip_file()
unzip_file(req) ==
    IF ~req.has_file THEN Failure("KeyError: file", 500)
    ELSE IF ~req.zip_ok THEN Failure("BadZipFile", 500)
    ELSE
        LET csv_files == CsvFiles(req.entries)
        IN  IF csv_files = <<>> THEN Failure("No CSV file found in zip", 400)
            ELSE IF ~ZipRead(req.entries, csv_files[1]).utf8
                 THEN Failure("UnicodeDecodeError", 500)
            ELSE [success |-> TRUE,
                  csv |-> ZipRead(req.entries, csv_files[1]).content,
                  filename |-> csv_files[1], status |-> 200]

----------------------------------------------------------------------------
(* Inputs *)

MaxLaps == 2

MaxSteps == 2

MaxEntries == 2

MaxRecords == 12

SeqsUpTo(S, n) == UNION {[1..k -> S] : k \in 0..n}

\* A lap message holding the fields of `over`, every other field missing
Lap(over) == [f \in LapFields |-> IF f \in DOMAIN over THEN over[f] ELSE Missing]

\* A workout_step message holding the fields of `over`
Step(over) == [f \in StepFields |-> IF f \in DOMAIN over THEN over[f] ELSE Missing]

Record(timestamp, heart_rate) ==
    [timestamp |-> timestamp, heart_rate |-> heart_rate]

\* Speeds in mm/s: zero, slow, the ties of round(1000/s) (128, 3200, 16000
\* and 2000000 mm/s give x.5 s/km), running speeds, and speeds past
\* 2000 m/s whose pace rounds to 0 s/km
SpeedValues ==
    {Missing, PyNone} \cup
    {Num(v) : v \in {0, 1, 128, 2778, 3000, 3200, 4000, 16000, 1999999,
                     2000000, 3000000}}

CadenceValues == {Missing, PyNone} \cup {Num(c) : c \in {0, 1, 85, 90}}

FractionValues == {Missing, PyNone} \cup {Num(f) : f \in {0, 32, 64, 96, 127}}

PassValues == {Missing, PyNone, Num(0), Num(150)}

FullLap ==
    Lap([start_time |-> Time(1000), total_elapsed_time |-> Num(600000),
         total_distance |-> Num(2000), avg_heart_rate |-> Num(150),
         max_heart_rate |-> Num(170), enhanced_avg_speed |-> Num(3333),
         avg_speed |-> Num(3300), avg_running_cadence |-> Num(85),
         avg_cadence |-> Num(84), avg_fractional_cadence |-> Num(64),
         avg_power |-> Num(250), intensity |-> Str("active")])

SampleLaps ==
    {Lap(<<>>),
     [f \in LapFields |-> PyNone],
     FullLap,
     Lap([start_time |-> Time(1000), total_elapsed_time |-> Num(299000),
          avg_heart_rate |-> Num(140), intensity |-> Str("rest")]),
     Lap([avg_running_cadence |-> Num(85),
          avg_fractional_cadence |-> PyNone, avg_speed |-> Num(3000)]),
     Lap([total_elapsed_time |-> Num(0), total_distance |-> Num(0),
          avg_heart_rate |-> Num(0), max_heart_rate |-> Num(0),
          avg_speed |-> Num(0), avg_cadence |-> Num(0),
          avg_power |-> Num(0)])}

\* Twelve samples 50 s apart from the lap's start, heart rate rising
RisingRecords == [i \in 1..12 |-> Record(Time(1000 + 50 * (i - 1)), Num(120 + i))]

SampleRecords ==
    {<<>>,
     RisingRecords,
     [RisingRecords EXCEPT ![3] = Record(PyNone, Num(123))],
     [RisingRecords EXCEPT ![3] = Record(Time(1100), PyNone)]}

LapGrid ==
    {Lap([enhanced_avg_speed |-> e, avg_speed |-> a]) :
        e \in SpeedValues, a \in SpeedValues}
    \cup
    {Lap([avg_running_cadence |-> r, avg_cadence |-> c,
          avg_fractional_cadence |-> f]) :
        r \in CadenceValues, c \in CadenceValues, f \in FractionValues}
    \cup
    {Lap([total_elapsed_time |-> d, total_distance |-> m,
          avg_heart_rate |-> h, max_heart_rate |-> x, avg_power |-> w]) :
        d \in PassValues, m \in PassValues, h \in PassValues,
        x \in PassValues, w \in PassValues}

LapRequest(has_file, name_gz, content, payload) ==
    [endpoint |-> "parse-lap-data", has_file |-> has_file,
     name_gz |-> name_gz, content |-> content,
     lap_data |-> payload[1], record_data |-> payload[2]]

\* The decoder yields messages only from bytes that hold a FIT file
LapRequests ==
    {LapRequest(h, g, c, p) :
        h \in BOOLEAN, g \in BOOLEAN, c \in {"fit", "gz_fit"},
        p \in SeqsUpTo(SampleLaps, MaxLaps) \X SampleRecords}
    \cup
    {LapRequest(TRUE, g, IF g THEN "gz_fit" ELSE "fit", p) :
        g \in BOOLEAN, p \in {<<lap>> : lap \in LapGrid} \X {<<>>}}
    \cup
    {LapRequest(h, g, c, <<<<>>, <<>>>>) :
        h \in BOOLEAN, g \in BOOLEAN, c \in {"corrupt", "gz_corrupt"}}

\* Encoded heart-rate bounds: the decoded values run over every threshold
\* of get_zone_name (130, 145, 160, 175) and beyond
HrValues == {Missing, PyNone} \cup {Num(r) : r \in {0, 100, 355} \cup (225..280)}

DurationTypes ==
    {Missing, PyNone, Str("time"), Str("open"),
     Str("repeat_until_steps_cmplt"), Str("distance")}

Intensities ==
    {Missing, PyNone, Empty, Str("warmup"), Str("cooldown"), Str("rest"),
     Str("active"), Str("recovery"), Str("interval"), Num(7)}

DurationTimes == {Missing, PyNone} \cup {Num(t) : t \in {0, 500, 60000, 90500}}

RepeatValues == {Missing, PyNone, Num(2), Num(3)}

SampleSteps ==
    {Step(<<>>),
     [f \in StepFields |-> PyNone],
     Step([wkt_step_name |-> Str("Warm up"), duration_type |-> Str("time"),
           duration_time |-> Num(600000), intensity |-> Str("warmup"),
           custom_target_heart_rate_low |-> Num(225),
           custom_target_heart_rate_high |-> Num(240),
           custom_target_speed_low |-> Num(2778),
           custom_target_speed_high |-> Num(3333)]),
     Step([duration_type |-> Str("repeat_until_steps_cmplt"),
           repeat_steps |-> Num(3), duration_step |-> Num(2)]),
     Step([duration_type |-> Str("open"), intensity |-> Str("cooldown")])}

StepGrid ==
    {Step([custom_target_heart_rate_low |-> lo,
           custom_target_heart_rate_high |-> hi]) :
        lo \in HrValues, hi \in HrValues}
    \cup
    {Step([custom_target_speed_low |-> lo, custom_target_speed_high |-> hi]) :
        lo \in SpeedValues, hi \in SpeedValues}
    \cup
    {Step([duration_type |-> d, intensity |-> i, duration_time |-> t,
           repeat_steps |-> r, duration_step |-> r]) :
        d \in DurationTypes, i \in Intensities, t \in DurationTimes,
        r \in RepeatValues}
    \cup
    {Step([duration_type |-> Str("repeat_until_steps_cmplt"),
           repeat_steps |-> r, duration_step |-> q]) :
        r \in RepeatValues, q \in RepeatValues}

StructureRequest(has_file, content, workout_steps) ==
    [endpoint |-> "parse-structure", has_file |-> has_file,
     content |-> content, workout_steps |-> workout_steps]

StructureRequests ==
    {StructureRequest(h, c, w) :
        h \in BOOLEAN, c \in {"fit", "gz_fit"},
        w \in SeqsUpTo(SampleSteps, MaxSteps)}
    \cup
    {StructureRequest(TRUE, "fit", <<step>>) : step \in StepGrid}
    \cup
    {StructureRequest(h, c, <<>>) :
        h \in BOOLEAN, c \in {"corrupt", "gz_corrupt"}}

ZipNames ==
    {<<"a", ".", "c", "s", "v">>, <<"b", ".", "c", "s", "v">>,
     <<"n", ".", "t", "x", "t">>, <<"u", ".", "C", "S", "V">>,
     <<"c", "s", "v">>, <<"d", ".", "c", "s", "v", ".", "g", "z">>}

ZipEntries ==
    {[name |-> n, content |-> c, utf8 |-> u] :
        n \in ZipNames, c \in {"x,y", "p,q"}, u \in BOOLEAN}

UnzipRequests ==
    {[endpoint |-> "unzip", has_file |-> h, zip_ok |-> z, entries |-> e] :
        h \in BOOLEAN, z \in {TRUE}, e \in SeqsUpTo(ZipEntries, MaxEntries)}
    \cup
    {[endpoint |-> "unzip", has_file |-> h, zip_ok |-> FALSE,
      entries |-> <<>>] : h \in BOOLEAN}

Requests == LapRequests \cup StructureRequests \cup UnzipRequests

\* Arguments of calculate_hr_drift: n samples `gap` seconds apart from the
\* lap's start, their heart rates following `pattern`, and at most one
\* irregular sample at position `at`
DriftHr(pattern, i, n) ==
    CASE pattern = "rising" -> 100 + i
      [] pattern = "falling" -> 150 - i
      [] pattern = "flat" -> 120
      [] pattern = "zero" -> 0
      [] pattern = "late" -> IF i <= n \div 2 THEN 0 ELSE 100
      [] OTHER -> 100 + 7 * (i % 3)

DriftRecord(start, pattern, gap, i, n, kind) ==
    LET ts == Time(start + gap * (i - 1))
        hr == Num(DriftHr(pattern, i, n))
    IN  CASE kind = "hr_none" -> Record(ts, PyNone)
          [] kind = "hr_missing" -> Record(ts, Missing)
          [] kind = "ts_missing" -> Record(Missing, hr)
          [] kind = "ts_none" -> Record(PyNone, hr)
          [] kind = "before" -> Record(Time(start - 1), hr)
          [] kind = "after" -> Record(Time(start + 100000), hr)
          [] OTHER -> Record(ts, hr)

DriftArgs ==
    {[records |-> [i \in 1..n |->
                      DriftRecord(start, pattern, gap, i, n,
                                  IF i = at THEN kind ELSE "regular")],
      start_time |-> start, duration |-> duration] :
        start \in {1000},
        n \in (8..MaxRecords) \cup {20},
        gap \in {1, 60},
        pattern \in {"rising", "falling", "flat", "zero", "late", "zigzag"},
        at \in {1, 5, 8},
        kind \in {"regular", "hr_none", "hr_missing", "ts_missing",
                  "ts_none", "before", "after"},
        duration \in {299000, 299999, 300000, 540000, 540001, 600000}}

NoArgs == [pending |-> TRUE]

----------------------------------------------------------------------------
(* The endpoints as a state machine: one request, handled once.  The      *)
(* server keeps no state between requests.                                 *)

Init ==
    /\ request \in Requests
    /\ response = NoResponse
    /\ args = NoArgs
    /\ result = NoResponse

ParseLapData ==
    /\ request.endpoint = "parse-lap-data"
    /\ response = NoResponse
    /\ response' = parse_lap_data(request)
    /\ UNCHANGED <<request, args, result>>

ParseStructure ==
    /\ request.endpoint = "parse-structure"
    /\ response = NoResponse
    /\ response' = parse_structure(request)
    /\ UNCHANGED <<request, args, result>>

UnzipFile ==
    /\ request.endpoint = "unzip"
    /\ response = NoResponse
    /\ response' = unzip_file(request)
    /\ UNCHANGED <<request, args, result>>

Next == ParseLapData \/ ParseStructure \/ UnzipFile

Spec == Init /\ [][Next]_vars

(* calculate_hr_drift applied to its arguments *)

InitDrift ==
    /\ request = NoArgs
    /\ response = NoResponse
    /\ args \in DriftArgs
    /\ result = NoResponse

CalcDrift ==
    /\ result = NoResponse
    /\ result' = calculate_hr_drift(args.records, args.start_time,
                                    args.duration)
    /\ UNCHANGED <<request, response, args>>

NextDrift == CalcDrift

SpecDrift == InitDrift /\ [][NextDrift]_vars

----------------------------------------------------------------------------
(* Vocabulary of the properties *)

\* A field is absent when its key is missing or its value is None
Absent(v) == v = Missing \/ v = PyNone

IsNum(v) == v.k = "num"

Handled == response # NoResponse

LapHandled == request.endpoint = "parse-lap-data" /\ Handled

StructureHandled == request.endpoint = "parse-structure" /\ Handled

\* The upload reaches the summarizer: the form holds the file and its
\* bytes decode to messages
LapDecodes ==
    /\ request.has_file
    /\ \/ request.name_gz /\ request.content = "gz_fit"
       \/ ~request.name_gz /\ request.content = "fit"

StructureDecodes == request.has_file /\ request.content = "fit"

\* The number a "M:SS" cell stands for, -1 when it is not of that form:
\* digits without a leading zero, a colon, two digits below 60
DigitValue(ch) == CHOOSE d \in 0..9 : DigitChars[d + 1] = ch

IsDigit(ch) == \E d \in 0..9 : DigitChars[d + 1] = ch

RECURSIVE ParseInt(_)
ParseInt(chars) ==
    IF chars = <<>> THEN 0
    ELSE 10 * ParseInt(SubSeq(chars, 1, Len(chars) - 1))
         + DigitValue(chars[Len(chars)])

PaceSeconds(cell) ==
    IF cell.k # "text" \/ Len(cell.c) < 4 THEN -1
    ELSE
        LET c == cell.c
            n == Len(c)
            mins == SubSeq(c, 1, n - 3)
            secs == SubSeq(c, n - 1, n)
        IN  IF /\ c[n - 2] = ":"
               /\ \A i \in 1..Len(mins) : IsDigit(mins[i])
               /\ \A i \in 1..2 : IsDigit(secs[i])
               /\ (Len(mins) > 1 => mins[1] # "0")
               /\ ParseInt(secs) <= 59
            THEN 60 * ParseInt(mins) + ParseInt(secs)
            ELSE -1

----------------------------------------------------------------------------
(* Properties *)

\* C1: missing data never raises.  Whenever the decoded Lap (with any
\* Record sequence) or WorkoutStep messages reach the summarizer, with
\* every field missing, null or valid, the summarizer completes and emits
\* one row per message carrying that message's 1-based number.
C1_MissingDataNeverRaises ==
    /\ (LapHandled /\ LapDecodes) =>
          /\ response.success
          /\ Len(response.csv.rows) = Len(request.lap_data)
          /\ \A i \in 1..Len(request.lap_data) :
                 response.csv.rows[i].lap_number = Num(i)
    /\ (StructureHandled /\ StructureDecodes) =>
          /\ response.success
          /\ Len(response.csv.rows) = Len(request.workout_steps)
          /\ \A i \in 1..Len(request.workout_steps) :
                 response.csv.rows[i].step_number = Num(i)

\* The part of C1 that the code keeps: the structure summarizer never
\* raises, whatever is missing or null.
C1_StructureNeverRaises ==
    (StructureHandled /\ StructureDecodes) =>
        /\ response.success
        /\ \A i \in 1..Len(request.workout_steps) :
               response.csv.rows[i].step_number = Num(i)

\* The CSV of a successful response is whole: the header and one row per
\* message, or the whole text of an archive entry named *.csv
CompleteCsv ==
    CASE request.endpoint = "parse-lap-data" ->
             /\ response.csv.header = LapHeader
             /\ Len(response.csv.rows) = Len(request.lap_data)
      [] request.endpoint = "parse-structure" ->
             /\ response.csv.header = StructureHeader
             /\ Len(response.csv.rows) = Len(request.workout_steps)
      [] OTHER ->
             \E i \in 1..Len(request.entries) :
                 /\ request.entries[i].name = response.filename
                 /\ EndsWith(response.filename, DotCsv)
                 /\ request.entries[i].utf8
                 /\ request.entries[i].content = response.csv

\* A step of the request fails: decompression, decoding, the derivation of
\* some row, or an archive without an entry named *.csv
SomeStepFails ==
    CASE request.endpoint = "parse-lap-data" ->
             \/ ~LapDecodes
             \/ \E i \in 1..Len(request.lap_data) :
                    LapRow(i, request.lap_data[i], request.record_data).raised
      [] request.endpoint = "parse-structure" -> ~StructureDecodes
      [] OTHER ->
             \/ ~request.has_file
             \/ ~request.zip_ok
             \/ \A i \in 1..Len(request.entries) :
                    ~EndsWith(request.entries[i].name, DotCsv)

\* C2: every request ends in exactly one of two outcomes: success with a
\* complete CSV, or failure with an error message and no CSV; a failure
\* at any step never returns a partial CSV.
C2_AtomicOutcome ==
    Handled =>
        /\ IF response.success
           THEN /\ "csv" \in DOMAIN response
                /\ "error" \notin DOMAIN response
                /\ CompleteCsv
           ELSE /\ "error" \in DOMAIN response
                /\ "csv" \notin DOMAIN response
        /\ SomeStepFails => ~response.success

\* C2's case: the first lap's row was written, the second lap's derivation
\* raised, and the response is a failure
C2_Witness ==
    /\ LapHandled
    /\ LapDecodes
    /\ Len(request.lap_data) = 2
    /\ ~LapRow(1, request.lap_data[1], request.record_data).raised
    /\ LapRow(2, request.lap_data[2], request.record_data).raised
    /\ ~response.success

\* C3: for every input of n Lap (WorkoutStep) messages the CSV holds
\* exactly n data rows, the i-th derived from the i-th message and numbered
\* i, and the reported lap_count (step_count) is n.
C3_RowPerMessage ==
    /\ (LapHandled /\ LapDecodes) =>
          /\ response.success
          /\ response.lap_count = Len(request.lap_data)
          /\ Len(response.csv.rows) = Len(request.lap_data)
          /\ \A i \in 1..Len(request.lap_data) :
                 response.csv.rows[i] =
                     LapRow(i, request.lap_data[i], request.record_data).row
    /\ (StructureHandled /\ StructureDecodes) =>
          /\ response.success
          /\ response.step_count = Len(request.workout_steps)
          /\ Len(response.csv.rows) = Len(request.workout_steps)
          /\ \A i \in 1..Len(request.workout_steps) :
                 response.csv.rows[i] = StepRow(i, request.workout_steps[i])

\* The part of C3 that the code keeps: every CSV that is returned holds one
\* row per message, in the messages' order, and the count reported is n.
C3_WhenCsvReturned ==
    /\ (LapHandled /\ response.success) =>
          /\ response.lap_count = Len(request.lap_data)
          /\ Len(response.csv.rows) = Len(request.lap_data)
          /\ \A i \in 1..Len(request.lap_data) :
                 response.csv.rows[i] =
                     LapRow(i, request.lap_data[i], request.record_data).row
    /\ (StructureHandled /\ response.success) =>
          /\ response.step_count = Len(request.workout_steps)
          /\ Len(response.csv.rows) = Len(request.workout_steps)
          /\ \A i \in 1..Len(request.workout_steps) :
                 response.csv.rows[i] = StepRow(i, request.workout_steps[i])


\* The decoded heart-rate bound of a step: the raw value less 100
DecodedHr(step, field) == step[field].n - 100

\* The zone table as the specification states it
ZoneTable(hr_low, hr_high) ==
    IF hr_high <= 130 THEN "Zone 1: Recovery"
    ELSE IF hr_high <= 145
         THEN (IF hr_low < 130 THEN "Zone 1: Recovery - Zone 2: Aerobic"
               ELSE "Zone 2: Aerobic")
    ELSE IF hr_high <= 160
         THEN (IF hr_low < 145 THEN "Zone 2: Aerobic - Zone 3: Tempo"
               ELSE "Zone 3: Tempo")
    ELSE IF hr_high <= 175 THEN "Zone 4: Threshold"
    ELSE "Zone 5: VO2 Max"

ZoneLabels ==
    {"", "Zone 1: Recovery", "Zone 1: Recovery - Zone 2: Aerobic",
     "Zone 2: Aerobic", "Zone 2: Aerobic - Zone 3: Tempo", "Zone 3: Tempo",
     "Zone 4: Threshold", "Zone 5: VO2 Max"}

\* C4: the zone name of every step row is "" when either encoded bound is
\* absent, and otherwise the fixed table applied to the decoded bounds
\* (raw - 100); the only combined labels are the two of the table.
C4_ZoneTable ==
    (StructureHandled /\ response.success) =>
        \A i \in 1..Len(request.workout_steps) :
            LET step == request.workout_steps[i]
                lo == step["custom_target_heart_rate_low"]
                hi == step["custom_target_heart_rate_high"]
                name == response.csv.rows[i].target_zone_name
            IN  /\ name.k = "str"
                /\ name.s \in ZoneLabels
                /\ (Absent(lo) \/ Absent(hi)) => name.s = ""
                /\ (~Absent(lo) /\ ~Absent(hi)) =>
                       name.s = ZoneTable(DecodedHr(step, "custom_target_heart_rate_low"),
                                          DecodedHr(step, "custom_target_heart_rate_high"))

\* C4's case: a step whose decoded bounds are 130 and 145, the boundary
\* between the combined label and "Zone 2: Aerobic"
C4_Witness ==
    /\ StructureHandled
    /\ response.success
    /\ Len(request.workout_steps) = 1
    /\ request.workout_steps[1]["custom_target_heart_rate_low"] = Num(230)
    /\ request.workout_steps[1]["custom_target_heart_rate_high"] = Num(245)
    /\ response.csv.rows[1].target_zone_name = Str("Zone 2: Aerobic")

\* The drift of calculate_hr_drift's arguments as the specification states
\* it: the samples with a present heart rate and a timestamp in
\* [start, start + duration), split at floor(n/2)
QualifyingHr(a) ==
    LET ok(r) == /\ ~Absent(r["heart_rate"])
                 /\ ~Absent(r["timestamp"])
                 /\ r["timestamp"].t >= a.start_time
                 /\ r["timestamp"].t * 1000 < a.start_time * 1000 + a.duration
        F[i \in 0..Len(a.records)] ==
            IF i = 0 THEN <<>>
            ELSE IF ok(a.records[i])
                 THEN Append(F[i - 1], a.records[i]["heart_rate"].n)
                 ELSE F[i - 1]
    IN  F[Len(a.records)]

ClaimedDrift(a) ==
    LET q == QualifyingHr(a)
        n == Len(q)
        first == SubSeq(q, 1, n \div 2)
        second == SubSeq(q, n \div 2 + 1, n)
    IN  IF a.duration < 300000 \/ n < 10 \/ SumSeq(first) = 0 THEN PyNone
        ELSE Num(RoundHalfEven(
                 (SumSeq(second) * Len(first) - SumSeq(first) * Len(second))
                     * 10000,
                 SumSeq(first) * Len(second)))

StrictlyRising(q) == \A i \in 1..(Len(q) - 1) : q[i] < q[i + 1]

\* C5: calculate_hr_drift returns absent when the duration is below 300 s,
\* when fewer than 10 records qualify, or when the first-half mean is zero;
\* otherwise the rounded percentage by which the second half's mean exceeds
\* the first half's, which is positive for strictly rising heart rates.
C5_DriftAsClaimed ==
    result # NoResponse =>
        /\ ~result.raised
        /\ result.value = ClaimedDrift(args)
        /\ (result.value # PyNone /\ StrictlyRising(QualifyingHr(args))) =>
               result.value.n > 0

\* A record's None timestamp is compared with the lap's start
NoneTimestampCompared(a) ==
    /\ a.duration >= 300000
    /\ \E i \in 1..Len(a.records) :
           /\ a.records[i]["timestamp"] = PyNone
           /\ a.records[i]["heart_rate"] # Missing

\* The part of C5 that the code keeps: C5 whenever no None timestamp is
\* compared.
C5_WhenTimestampsPresent ==
    (result # NoResponse /\ ~NoneTimestampCompared(args)) =>
        /\ ~result.raised
        /\ result.value = ClaimedDrift(args)
        /\ (result.value # PyNone /\ StrictlyRising(QualifyingHr(args))) =>
               result.value.n > 0


\* A target-pace cell against the speed (mm/s) it is derived from, as the
\* specification states it: empty for an absent or zero speed, otherwise
\* the "M:SS" of round(1000 / s) seconds
PaceCellAsClaimed(cell, speed) ==
    IF Absent(speed) \/ speed.n = 0 THEN cell = Empty
    ELSE PaceSeconds(cell) = RoundHalfEven(1000000, speed.n)

\* The same, with the speeds of 2000 m/s and more, whose pace rounds to
\* 0 s/km, left empty as well
PaceCellBelow2000(cell, speed) ==
    IF Absent(speed) \/ speed.n = 0 \/ RoundHalfEven(1000000, speed.n) = 0
    THEN cell = Empty
    ELSE /\ PaceSeconds(cell) = RoundHalfEven(1000000, speed.n)
         /\ PaceSeconds(cell) >= 1

\* C6: target_pace_low is derived from custom_target_speed_high
\* and target_pace_high from custom_target_speed_low; for each speed s > 0
\* the "M:SS" cell reconstructs round(1000/s), and for s absent or 0 the
\* cell is empty.
C6_PaceRoundTrip ==
    (StructureHandled /\ response.success) =>
        \A i \in 1..Len(request.workout_steps) :
            /\ PaceCellAsClaimed(response.csv.rows[i].target_pace_low,
                   request.workout_steps[i]["custom_target_speed_high"])
            /\ PaceCellAsClaimed(response.csv.rows[i].target_pace_high,
                   request.workout_steps[i]["custom_target_speed_low"])

\* The part of C6 that the code keeps: C6 for every speed whose pace
\* round(1000/s) is at least 1 s/km; the cell is empty for the speeds of
\* 2000 m/s and more, whose pace rounds to 0.
C6_PaceRoundTripBelow2000 ==
    (StructureHandled /\ response.success) =>
        \A i \in 1..Len(request.workout_steps) :
            /\ PaceCellBelow2000(response.csv.rows[i].target_pace_low,
                   request.workout_steps[i]["custom_target_speed_high"])
            /\ PaceCellBelow2000(response.csv.rows[i].target_pace_high,
                   request.workout_steps[i]["custom_target_speed_low"])

IntensityNames == {"warmup", "cooldown", "rest", "active", "recovery"}

\* The notes of a repeat step whose repeat_steps and duration_step are
\* the numbers r and d
RepeatNotes(r, d) ==
    Text(<<"Repeat previous ">> \o Digits(r) \o <<" step(s) until step ">>
         \o Digits(d) \o <<" completes">>)

\* C7: a step with duration_type repeat_until_steps_cmplt gives, whatever
\* its intensity, exactly one row with step_type "repeat", an empty
\* duration_seconds and the notes naming repeat_steps and duration_step;
\* every other step's step_type is its intensity when that is one of
\* warmup/cooldown/rest/active/recovery, else the raw intensity or empty.
C7_RepeatAndStepType ==
    (StructureHandled /\ StructureDecodes) =>
        /\ response.success
        /\ Len(response.csv.rows) = Len(request.workout_steps)
        /\ \A i \in 1..Len(request.workout_steps) :
               LET step == request.workout_steps[i]
                   row == response.csv.rows[i]
                   intensity == step["intensity"]
               IN  IF step["duration_type"] = Str("repeat_until_steps_cmplt")
                   THEN /\ row.step_type = Str("repeat")
                        /\ row.duration_seconds = Empty
                        /\ (IsNum(step["repeat_steps"])
                               /\ IsNum(step["duration_step"])) =>
                               row.notes = RepeatNotes(step["repeat_steps"].n,
                                                       step["duration_step"].n)
                   ELSE IF intensity.k = "str" /\ intensity.s \in IntensityNames
                        THEN row.step_type = intensity
                        ELSE IF Absent(intensity) THEN row.step_type = Empty
                        ELSE row.step_type = intensity

\* C7's case: a repeat step whose intensity is warmup and whose
\* duration_time is set
C7_Witness ==
    /\ StructureHandled
    /\ response.success
    /\ Len(request.workout_steps) = 1
    /\ request.workout_steps[1]["duration_type"] = Str("repeat_until_steps_cmplt")
    /\ request.workout_steps[1]["intensity"] = Str("warmup")
    /\ request.workout_steps[1]["duration_time"] = Num(60000)
    /\ request.workout_steps[1]["repeat_steps"] = Num(3)
    /\ response.csv.rows[1].step_type = Str("repeat")
    /\ response.csv.rows[1].notes
           = Text(<<"Repeat previous ", "3", " step(s) until step ", "3",
                    " completes">>)

PassThrough ==
    <<<<"duration_seconds", "total_elapsed_time">>,
      <<"distance_meters", "total_distance">>,
      <<"avg_heart_rate", "avg_heart_rate">>,
      <<"max_heart_rate", "max_heart_rate">>,
      <<"avg_power", "avg_power">>>>

\* C8: in every lap row each of duration_seconds, distance_meters,
\* avg_heart_rate, max_heart_rate and avg_power is empty if and only if the
\* Lap field is absent; every present value, 0 included, is emitted as is.
C8_PassThrough ==
    (LapHandled /\ response.success) =>
        \A i \in 1..Len(request.lap_data) :
            \A j \in 1..Len(PassThrough) :
                LET cell == response.csv.rows[i][PassThrough[j][1]]
                    value == request.lap_data[i][PassThrough[j][2]]
                IN  /\ (cell = Empty) <=> Absent(value)
                    /\ ~Absent(value) => cell = value

\* The part of C8 that the code keeps: the cell is empty exactly when the
\* field is absent or 0, and every other value is emitted as is.
C8_PassThroughButZero ==
    (LapHandled /\ response.success) =>
        \A i \in 1..Len(request.lap_data) :
            \A j \in 1..Len(PassThrough) :
                LET cell == response.csv.rows[i][PassThrough[j][1]]
                    value == request.lap_data[i][PassThrough[j][2]]
                IN  /\ (cell = Empty) <=> (Absent(value) \/ value = Num(0))
                    /\ (~Absent(value) /\ value # Num(0)) => cell = value

\* The avg_pace cell for the chosen speed (mm/s): the "M:SS" of the
\* truncated floor(1000 / s) seconds when s is present and positive
LapPaceCell(cell, speed) ==
    IF Absent(speed) \/ speed.n <= 0 THEN cell = Empty
    ELSE PaceSeconds(cell) = 1000000 \div speed.n

\* C9: the speed of avg_pace is enhanced_avg_speed when that
\* field is present and avg_speed only when it is absent; avg_pace is the
\* "M:SS" of floor(1000/s) when s is present and > 0, else empty.
C9_LapPace ==
    (LapHandled /\ response.success) =>
        \A i \in 1..Len(request.lap_data) :
            LET lap == request.lap_data[i]
                s == IF ~Absent(lap["enhanced_avg_speed"])
                     THEN lap["enhanced_avg_speed"] ELSE lap["avg_speed"]
            IN  LapPaceCell(response.csv.rows[i].avg_pace, s)

\* The part of C9 that the code keeps: with the speed enhanced_avg_speed
\* when that field is present and not 0, and avg_speed otherwise, avg_pace
\* is the "M:SS" of floor(1000/s) when s is present and > 0, else empty.
C9_LapPaceButZero ==
    (LapHandled /\ response.success) =>
        \A i \in 1..Len(request.lap_data) :
            LET lap == request.lap_data[i]
                e == lap["enhanced_avg_speed"]
                s == IF ~Absent(e) /\ e # Num(0) THEN e ELSE lap["avg_speed"]
            IN  LapPaceCell(response.csv.rows[i].avg_pace, s)

\* C10: the cadence base c is avg_running_cadence when present and
\* avg_cadence only when that is absent; when c is present the row's
\* avg_cadence is round((c + f) * 2), f being avg_fractional_cadence or 0
\* when absent, and the cell is empty only when both fields are absent.
C10_Cadence ==
    (LapHandled /\ LapDecodes) =>
        /\ response.success
        /\ \A i \in 1..Len(request.lap_data) :
               LET lap == request.lap_data[i]
                   c == IF ~Absent(lap["avg_running_cadence"])
                        THEN lap["avg_running_cadence"] ELSE lap["avg_cadence"]
                   f == IF Absent(lap["avg_fractional_cadence"]) THEN 0
                        ELSE lap["avg_fractional_cadence"].n
                   cell == response.csv.rows[i].avg_cadence
               IN  IF Absent(c) THEN cell = Empty
                   ELSE cell = Num(RoundHalfEven(128 * c.n + f, 64))

\* The part of C10 that the code keeps: with the base c the first of
\* avg_running_cadence and avg_cadence that is present and not 0, every row
\* written has round((c + f) * 2), and is empty when there is no such c.
C10_CadenceButZero ==
    (LapHandled /\ response.success) =>
        \A i \in 1..Len(request.lap_data) :
            LET lap == request.lap_data[i]
                r == lap["avg_running_cadence"]
                c == IF ~Absent(r) /\ r # Num(0) THEN r ELSE lap["avg_cadence"]
                f == IF Absent(lap["avg_fractional_cadence"]) THEN 0
                     ELSE lap["avg_fractional_cadence"].n
                cell == response.csv.rows[i].avg_cadence
            IN  IF Absent(c) \/ c = Num(0) THEN cell = Empty
                ELSE cell = Num(RoundHalfEven(128 * c.n + f, 64))

====
